---- MODULE Spec2Model ----
(***************************************************************************)
(* Funnel builder: the graph store (hooks/useFunnelStore.ts), the          *)
(* connection legality checker and the validation engine                   *)
(* (utils/validation.ts).                                                  *)
(*                                                                         *)
(* Spec         the store driven by user events from the empty store       *)
(* SpecLegal    isValidConnection applied to arbitrary nodes and edge lists*)
(* SpecValidate validateFunnel applied to arbitrary graphs                 *)
(***************************************************************************)
EXTENDS Integers, Sequences, FiniteSets, TLC

\* ------------------------------------------------------------------------
\* Bounds of the model
\* ------------------------------------------------------------------------
\* ids nanoid() hands out in one run of the store
MaxIds == 4
\* user events handled in one run of the store
MaxOps == 5
\* arbitrary graphs given to the pure functions
MaxGraphNodes == 3
MaxGraphId == 3
MaxGraphEdges == 2
\* graphs found in localStorage when the store is mounted
MaxSavedNodes == 3
MaxSavedEdges == 4
\* user events handled after mounting on a saved graph
MaxSavedOps == 1

\* Nodes of a saved graph, and handler calls in a run, of SpecHistory
MaxUndoNodes == 1
MaxUndoOps == 3

\* Mutations, and then calls of undo, in a run of SpecRoundTrip
MaxMutations == 2

\* Nodes of a loaded graph, the largest index one of them carries, and the
\* nodes added before the load, in a run of SpecLoad
MaxLoadNodes == 2
MaxLoadIndex == 2
MaxLoadAdds == 1

\* ------------------------------------------------------------------------
\* Program constants
\* ------------------------------------------------------------------------
\* useFunnelStore.ts:71  if (newHistory.length > 50)
HistoryLimit == 50
\* useFunnelStore.ts:77  Math.min(prev + 1, 49)
HistoryIndexCap == 49

\* types/index.ts:4-9
FunnelNodeType == {"salesPage", "orderPage", "upsell", "downsell", "thankYou"}

\* constants/nodeTemplates.ts:86-92
DEFAULT_LABELS(nodeType) ==
  CASE nodeType = "salesPage" -> "Sales Page"
    [] nodeType = "orderPage" -> "Order Page"
    [] nodeType = "upsell"    -> "Upsell"
    [] nodeType = "downsell"  -> "Downsell"
    [] nodeType = "thankYou"  -> "Thank You"
    [] OTHER                  -> "undefined"

VARIABLES
  nodes,          \* useNodesState: sequence of node records
  edges,          \* useEdgesState: sequence of edge records
  counters,       \* countersRef.current
  history,        \* useState<FunnelState[]>
  historyIndex,   \* useState(-1)
  isUndoRedoRef,  \* isUndoRedoRef.current
  nextId,         \* number of ids nanoid() has handed out
  ops,            \* number of events handled
  last,           \* the last store call: operation, arguments, local `error`, return value
  pure            \* the last call of a pure function of utils/validation.ts

vars == <<nodes, edges, counters, history, historyIndex, isUndoRedoRef, nextId, ops,
          last, pure>>

\* ------------------------------------------------------------------------
\* Graph model
\* ------------------------------------------------------------------------
\* A label is `${base} ${n}` for upsell/downsell and `base` for the others
\* (n = 0).  index = 0 stands for an absent index: the code only ever tests
\* it for truthiness.
MkNode(id, nodeType, label, index) ==
  [id |-> id, nodeType |-> nodeType, label |-> label, index |-> index]

\* the value of nodes.find(...) when nothing matches
Undefined == MkNode(0, "undefined", [base |-> "undefined", n |-> 0], 0)

\* id as built by addEdge of @xyflow/react: `xy-edge__${source}-${target}`
MkEdge(source, target) ==
  [id |-> <<source, target>>, source |-> source, target |-> target]

Min(a, b) == IF a < b THEN a ELSE b

\* Array.prototype.find: the first match, or undefined
RECURSIVE Find(_, _)
Find(s, id) ==
  IF s = <<>> THEN Undefined
  ELSE IF Head(s).id = id THEN Head(s)
       ELSE Find(Tail(s), id)

\* ------------------------------------------------------------------------
\* utils/validation.ts: isValidConnection
\* ------------------------------------------------------------------------
\* mutant: the thankYou check of lines 109-112 is missing
isValidConnection_noThankYouCheck(sourceNode, targetNode, existingEdges) ==
  IF sourceNode = Undefined \/ targetNode = Undefined
    THEN "Invalid nodes"
  ELSE IF sourceNode.id = targetNode.id
    THEN "Cannot connect a node to itself"
  ELSE IF \E i \in 1..Len(existingEdges) :
            /\ existingEdges[i].source = sourceNode.id
            /\ existingEdges[i].target = targetNode.id
    THEN "Connection already exists"
  ELSE "null"

\* mutant: the self-connection check of lines 96-99 is missing
isValidConnection_noSelfCheck(sourceNode, targetNode, existingEdges) ==
  IF sourceNode = Undefined \/ targetNode = Undefined
    THEN "Invalid nodes"
  ELSE IF \E i \in 1..Len(existingEdges) :
            /\ existingEdges[i].source = sourceNode.id
            /\ existingEdges[i].target = targetNode.id
    THEN "Connection already exists"
  ELSE IF sourceNode.nodeType = "thankYou"
    THEN "Thank You pages cannot have outgoing connections"
  ELSE "null"

\* mutant: the thankYou check is made before the self-connection check
isValidConnection_thankYouFirst(sourceNode, targetNode, existingEdges) ==
  IF sourceNode = Undefined \/ targetNode = Undefined
    THEN "Invalid nodes"
  ELSE IF sourceNode.nodeType = "thankYou"
    THEN "Thank You pages cannot have outgoing connections"
  ELSE IF sourceNode.id = targetNode.id
    THEN "Cannot connect a node to itself"
  ELSE IF \E i \in 1..Len(existingEdges) :
            /\ existingEdges[i].source = sourceNode.id
            /\ existingEdges[i].target = targetNode.id
    THEN "Connection already exists"
  ELSE "null"

isValidConnection(sourceNode, targetNode, existingEdges) ==
  IF sourceNode = Undefined \/ targetNode = Undefined
    THEN "Invalid nodes"
  ELSE IF sourceNode.id = targetNode.id
    THEN "Cannot connect a node to itself"
  ELSE IF \E i \in 1..Len(existingEdges) :
            /\ existingEdges[i].source = sourceNode.id
            /\ existingEdges[i].target = targetNode.id
    THEN "Connection already exists"
  ELSE IF sourceNode.nodeType = "thankYou"
    THEN "Thank You pages cannot have outgoing connections"
  ELSE "null"

\* ------------------------------------------------------------------------
\* utils/validation.ts: validateFunnel
\* ------------------------------------------------------------------------
\* An issue id is `${prefix}${node.id}`, a message is `"${node.data.label}" ${text}`.
Issue(prefix, type, text, node) ==
  [id |-> [prefix |-> prefix, node |-> node.id],
   type |-> type,
   message |-> [label |-> node.label, text |-> text],
   nodeId |-> node.id]

\* lines 17-37: outgoingEdges.get(id) || [] and incomingEdges.get(id) || []
outgoingEdges(id, es) == SelectSeq(es, LAMBDA e : e.source = id)
incomingEdges(id, es) == SelectSeq(es, LAMBDA e : e.target = id)

\* mutant: the error is raised for any node with outgoing edges
Rule1_anyType(node, nodeOutgoing) ==
  IF Len(nodeOutgoing) > 0
    THEN <<Issue("thank-you-outgoing-", "error",
                 "should not have outgoing connections", node)>>
    ELSE <<>>

\* lines 40-48
Rule1(node, nodeOutgoing) ==
  IF node.nodeType = "thankYou" /\ Len(nodeOutgoing) > 0
    THEN <<Issue("thank-you-outgoing-", "error",
                 "should not have outgoing connections", node)>>
    ELSE <<>>

\* mutant: > 1 of line 59 written >= 1
Rule2_offByOne(node, nodeOutgoing) ==
  IF node.nodeType = "salesPage"
    THEN IF Len(nodeOutgoing) = 0
           THEN <<Issue("sales-no-outgoing-", "warning",
                        "should connect to an Order Page", node)>>
         ELSE IF Len(nodeOutgoing) >= 1
           THEN <<Issue("sales-multiple-outgoing-", "warning",
                        "has multiple outgoing connections (typically should have one)",
                        node)>>
         ELSE <<>>
    ELSE <<>>

\* lines 50-67
Rule2(node, nodeOutgoing) ==
  IF node.nodeType = "salesPage"
    THEN IF Len(nodeOutgoing) = 0
           THEN <<Issue("sales-no-outgoing-", "warning",
                        "should connect to an Order Page", node)>>
         ELSE IF Len(nodeOutgoing) > 1
           THEN <<Issue("sales-multiple-outgoing-", "warning",
                        "has multiple outgoing connections (typically should have one)",
                        node)>>
         ELSE <<>>
    ELSE <<>>

\* mutant: the incoming edges are not looked at
Rule3_outgoingOnly(node, nodeOutgoing, nodeIncoming, ns) ==
  IF Len(nodeOutgoing) = 0 /\ Len(ns) > 1
    THEN <<Issue("orphan-", "warning", "is not connected to any other node", node)>>
    ELSE <<>>

\* mutant: a sales page that already got its own warning is not checked again
Rule3_skipsSalesPage(node, nodeOutgoing, nodeIncoming, ns) ==
  IF /\ Len(nodeOutgoing) = 0 /\ Len(nodeIncoming) = 0 /\ Len(ns) > 1
     /\ node.nodeType # "salesPage"
    THEN <<Issue("orphan-", "warning", "is not connected to any other node", node)>>
    ELSE <<>>

\* lines 69-77
Rule3(node, nodeOutgoing, nodeIncoming, ns) ==
  IF Len(nodeOutgoing) = 0 /\ Len(nodeIncoming) = 0 /\ Len(ns) > 1
    THEN <<Issue("orphan-", "warning", "is not connected to any other node", node)>>
    ELSE <<>>

\* mutant: edges with an end that is no node of ns are left out of the maps
NodeIssues_liveEdgesOnly(node, ns, es) ==
  LET live(id) == \E i \in 1..Len(ns) : ns[i].id = id
      liveEdges == SelectSeq(es, LAMBDA e : live(e.source) /\ live(e.target))
      nodeOutgoing == outgoingEdges(node.id, liveEdges)
      nodeIncoming == incomingEdges(node.id, liveEdges)
  IN  Rule1(node, nodeOutgoing) \o Rule2(node, nodeOutgoing)
        \o Rule3(node, nodeOutgoing, nodeIncoming, ns)

\* lines 35-78: the issues pushed by the callback of nodes.forEach for one node
NodeIssues(node, ns, es) ==
  LET nodeOutgoing == outgoingEdges(node.id, es)
      nodeIncoming == incomingEdges(node.id, es)
  IN  Rule1(node, nodeOutgoing) \o Rule2(node, nodeOutgoing)
        \o Rule3(node, nodeOutgoing, nodeIncoming, ns)

\* lines 35-78: the issues of the nodes from position i on, in node order
RECURSIVE IssuesFrom(_, _, _)
IssuesFrom(i, ns, es) ==
  IF i > Len(ns) THEN <<>>
  ELSE NodeIssues(ns[i], ns, es) \o IssuesFrom(i + 1, ns, es)

\* lines 14-81
validateFunnel(ns, es) == IssuesFrom(1, ns, es)

\* ------------------------------------------------------------------------
\* hooks/useFunnelStore.ts: the store
\* ------------------------------------------------------------------------
Call(op, nodeType, source, target, error, ret) ==
  [op |-> op, nodeType |-> nodeType, source |-> source, target |-> target,
   error |-> error, ret |-> ret]

NoCall == Call("none", "none", 0, 0, "none", "none")

PureCall(fn, sourceNode, targetNode, reason, issues) ==
  [fn |-> fn, sourceNode |-> sourceNode, targetNode |-> targetNode,
   reason |-> reason, issues |-> issues]

NoPureCall == PureCall("none", Undefined, Undefined, "none", <<>>)

\* the effect without the shift of line 71
HistoryEffect_noEvict(n, e, h, hi, f) ==
  IF Len(n) > 0 \/ Len(e) > 0
    THEN IF ~f
           THEN LET newHistory ==
                      Append(SubSeq(h, 1, Min(hi + 1, Len(h))),
                             [nodes |-> n, edges |-> e])
                IN  [history |-> newHistory,
                     historyIndex |-> Min(hi + 1, HistoryIndexCap),
                     isUndoRedoRef |-> FALSE]
           ELSE [history |-> h, historyIndex |-> hi, isUndoRedoRef |-> FALSE]
    ELSE [history |-> h, historyIndex |-> hi, isUndoRedoRef |-> f]

\* One run of the effect of lines 60-81 on a render with nodes n, edges e,
\* history h, historyIndex hi and isUndoRedoRef.current f.
HistoryEffect(n, e, h, hi, f) ==
  IF Len(n) > 0 \/ Len(e) > 0
    THEN IF ~f
           THEN LET newHistory ==
                      Append(SubSeq(h, 1, Min(hi + 1, Len(h))),
                             [nodes |-> n, edges |-> e])
                IN  [history |-> IF Len(newHistory) > HistoryLimit
                                   THEN Tail(newHistory)
                                   ELSE newHistory,
                     historyIndex |-> Min(hi + 1, HistoryIndexCap),
                     isUndoRedoRef |-> FALSE]
           ELSE [history |-> h, historyIndex |-> hi, isUndoRedoRef |-> FALSE]
    ELSE [history |-> h, historyIndex |-> hi, isUndoRedoRef |-> f]

\* The effect depends on [nodes, edges, historyIndex]: it runs once after the
\* render that follows a handler, and again after every run that changed
\* historyIndex (setHistory alone re-renders without re-running it).
RECURSIVE SettleEffects(_, _, _, _, _)
SettleEffects(n, e, h, hi, f) ==
  LET r == HistoryEffect(n, e, h, hi, f)
  IN  IF r.historyIndex = hi
        THEN r
        ELSE SettleEffects(n, e, r.history, r.historyIndex, r.isUndoRedoRef)

\* The render after a handler that set nodes, edges, historyIndex and the
\* ref to n, e, hi, f, with its effects run until the store is idle again.
Commit(n, e, hi, f) ==
  LET r == SettleEffects(n, e, history, hi, f)
  IN  /\ nodes' = n
      /\ edges' = e
      /\ history' = r.history
      /\ historyIndex' = r.historyIndex
      /\ isUndoRedoRef' = r.isUndoRedoRef

\* lines 84-94: the counters after generateLabel(nodeType)
generateLabelCounters(nodeType) ==
  IF nodeType = "upsell"
    THEN [counters EXCEPT !.upsell = @ + 1]
  ELSE IF nodeType = "downsell"
    THEN [counters EXCEPT !.downsell = @ + 1]
  ELSE counters

\* lines 84-94: the { label, index } generateLabel(nodeType) returns
generateLabel(nodeType) ==
  IF nodeType = "upsell"
    THEN [label |-> [base |-> "Upsell", n |-> counters.upsell + 1],
          index |-> counters.upsell + 1]
  ELSE IF nodeType = "downsell"
    THEN [label |-> [base |-> "Downsell", n |-> counters.downsell + 1],
          index |-> counters.downsell + 1]
  ELSE [label |-> [base |-> DEFAULT_LABELS(nodeType), n |-> 0], index |-> 0]

\* lines 97-114
addNode(nodeType) ==
  /\ ops < MaxOps
  /\ nextId < MaxIds
  /\ LET g == generateLabel(nodeType)
         newNode == MkNode(nextId + 1, nodeType, g.label, g.index)
     IN  /\ Commit(Append(nodes, newNode), edges, historyIndex, isUndoRedoRef)
         /\ counters' = generateLabelCounters(nodeType)
         /\ nextId' = nextId + 1
         /\ ops' = ops + 1
         /\ last' = Call("addNode", nodeType, nextId + 1, 0, "none", "node")
         /\ UNCHANGED pure

\* addEdge of @xyflow/react as called on lines 128-133: the list unchanged when
\* an edge with this source and target is in it, else with the edge appended
addEdge(source, target, eds) ==
  IF \E i \in 1..Len(eds) : eds[i].source = source /\ eds[i].target = target
    THEN eds
    ELSE Append(eds, MkEdge(source, target))

\* mutant: an existing connection is not rejected and the edge is concatenated
\* without addEdge
onConnect_duplicateAccepted(source, target) ==
  /\ ops < MaxOps
  /\ LET sourceNode == Find(nodes, source)
         targetNode == Find(nodes, target)
         error == isValidConnection(sourceNode, targetNode, edges)
     IN  /\ IF error \notin {"null", "Connection already exists"}
              THEN UNCHANGED <<nodes, edges, history, historyIndex, isUndoRedoRef>>
              ELSE Commit(nodes, Append(edges, MkEdge(source, target)),
                          historyIndex, isUndoRedoRef)
         /\ last' = Call("onConnect", "none", source, target, error, "undefined")
  /\ ops' = ops + 1
  /\ UNCHANGED <<counters, nextId, pure>>

\* mutant: a rejected connection still sets the edges, to a copy of the list
onConnect_setsEdgesOnError(source, target) ==
  /\ ops < MaxOps
  /\ LET sourceNode == Find(nodes, source)
         targetNode == Find(nodes, target)
         error == isValidConnection(sourceNode, targetNode, edges)
     IN  /\ IF error # "null"
              THEN Commit(nodes, edges, historyIndex, isUndoRedoRef)
              ELSE Commit(nodes, addEdge(source, target, edges),
                          historyIndex, isUndoRedoRef)
         /\ last' = Call("onConnect", "none", source, target, error, "undefined")
  /\ ops' = ops + 1
  /\ UNCHANGED <<counters, nextId, pure>>

\* lines 117-134
onConnect(source, target) ==
  /\ ops < MaxOps
  /\ LET sourceNode == Find(nodes, source)
         targetNode == Find(nodes, target)
         error == isValidConnection(sourceNode, targetNode, edges)
     IN  /\ IF error # "null"
              THEN UNCHANGED <<nodes, edges, history, historyIndex, isUndoRedoRef>>
              ELSE Commit(nodes, addEdge(source, target, edges),
                          historyIndex, isUndoRedoRef)
         /\ last' = Call("onConnect", "none", source, target, error, "undefined")
  /\ ops' = ops + 1
  /\ UNCHANGED <<counters, nextId, pure>>

\* mutant: deleting a node gives its index back: the counters are set to the
\* number of upsell and downsell nodes left
deleteNode_recount(nodeId) ==
  /\ ops < MaxOps
  /\ LET left == SelectSeq(nodes, LAMBDA n : n.id # nodeId)
     IN  /\ Commit(left,
                   SelectSeq(edges, LAMBDA e : e.source # nodeId /\ e.target # nodeId),
                   historyIndex, isUndoRedoRef)
         /\ counters' =
              [upsell |-> Len(SelectSeq(left, LAMBDA n : n.nodeType = "upsell")),
               downsell |-> Len(SelectSeq(left, LAMBDA n : n.nodeType = "downsell"))]
  /\ ops' = ops + 1
  /\ last' = Call("deleteNode", "none", nodeId, 0, "none", "undefined")
  /\ UNCHANGED <<nextId, pure>>

\* mutant: only the edges leaving the node are removed
deleteNode_sourceOnly(nodeId) ==
  /\ ops < MaxOps
  /\ Commit(SelectSeq(nodes, LAMBDA n : n.id # nodeId),
            SelectSeq(edges, LAMBDA e : e.source # nodeId),
            historyIndex, isUndoRedoRef)
  /\ ops' = ops + 1
  /\ last' = Call("deleteNode", "none", nodeId, 0, "none", "undefined")
  /\ UNCHANGED <<counters, nextId, pure>>

\* lines 140-143
deleteNode(nodeId) ==
  /\ ops < MaxOps
  /\ Commit(SelectSeq(nodes, LAMBDA n : n.id # nodeId),
            SelectSeq(edges, LAMBDA e : e.source # nodeId /\ e.target # nodeId),
            historyIndex, isUndoRedoRef)
  /\ ops' = ops + 1
  /\ last' = Call("deleteNode", "none", nodeId, 0, "none", "undefined")
  /\ UNCHANGED <<counters, nextId, pure>>

\* lines 146-148
deleteEdge(source, target) ==
  /\ ops < MaxOps
  /\ Commit(nodes, SelectSeq(edges, LAMBDA e : e.id # <<source, target>>),
            historyIndex, isUndoRedoRef)
  /\ ops' = ops + 1
  /\ last' = Call("deleteEdge", "none", source, target, "none", "undefined")
  /\ UNCHANGED <<counters, nextId, pure>>

\* clearCanvas without the reset of the counters on line 154
clearCanvas_keepsCounters ==
  /\ ops < MaxOps
  /\ Commit(<<>>, <<>>, historyIndex, isUndoRedoRef)
  /\ counters' = counters
  /\ ops' = ops + 1
  /\ last' = Call("clearCanvas", "none", 0, 0, "none", "undefined")
  /\ UNCHANGED <<nextId, pure>>

\* lines 151-155
clearCanvas ==
  /\ ops < MaxOps
  /\ Commit(<<>>, <<>>, historyIndex, isUndoRedoRef)
  /\ counters' = [upsell |-> 0, downsell |-> 0]
  /\ ops' = ops + 1
  /\ last' = Call("clearCanvas", "none", 0, 0, "none", "undefined")
  /\ UNCHANGED <<nextId, pure>>

\* undo with the guard of line 181 written historyIndex >= 0: at index 0 it
\* reads history[-1], which is undefined, and prevState.nodes throws
undo_belowZero ==
  /\ ops < MaxOps
  /\ IF historyIndex >= 0
       THEN IF historyIndex >= 1 /\ historyIndex <= Len(history)
              THEN /\ Commit(history[historyIndex].nodes, history[historyIndex].edges,
                             historyIndex - 1, TRUE)
                   /\ last' = Call("undo", "none", 0, 0, "none", "undefined")
              ELSE /\ isUndoRedoRef' = TRUE
                   /\ last' = Call("undo", "none", 0, 0, "none", "TypeError")
                   /\ UNCHANGED <<nodes, edges, history, historyIndex>>
       ELSE /\ last' = Call("undo", "none", 0, 0, "none", "undefined")
            /\ UNCHANGED <<nodes, edges, history, historyIndex, isUndoRedoRef>>
  /\ ops' = ops + 1
  /\ UNCHANGED <<counters, nextId, pure>>

\* undo loading the snapshot at the cursor instead of the one before it
undo_loadsCurrent ==
  /\ ops < MaxOps
  /\ IF historyIndex > 0
       THEN IF historyIndex + 1 <= Len(history)
              THEN /\ Commit(history[historyIndex + 1].nodes,
                             history[historyIndex + 1].edges,
                             historyIndex - 1, TRUE)
                   /\ last' = Call("undo", "none", 0, 0, "none", "undefined")
              ELSE /\ isUndoRedoRef' = TRUE
                   /\ last' = Call("undo", "none", 0, 0, "none", "TypeError")
                   /\ UNCHANGED <<nodes, edges, history, historyIndex>>
       ELSE /\ last' = Call("undo", "none", 0, 0, "none", "undefined")
            /\ UNCHANGED <<nodes, edges, history, historyIndex, isUndoRedoRef>>
  /\ ops' = ops + 1
  /\ UNCHANGED <<counters, nextId, pure>>

\* lines 180-188.  history[historyIndex - 1] is slot historyIndex of the
\* 1-based sequence; reading nodes of a slot that does not exist throws after
\* the ref was set.
undo ==
  /\ ops < MaxOps
  /\ IF historyIndex > 0
       THEN IF historyIndex <= Len(history)
              THEN /\ Commit(history[historyIndex].nodes, history[historyIndex].edges,
                             historyIndex - 1, TRUE)
                   /\ last' = Call("undo", "none", 0, 0, "none", "undefined")
              ELSE /\ isUndoRedoRef' = TRUE
                   /\ last' = Call("undo", "none", 0, 0, "none", "TypeError")
                   /\ UNCHANGED <<nodes, edges, history, historyIndex>>
       ELSE /\ last' = Call("undo", "none", 0, 0, "none", "undefined")
            /\ UNCHANGED <<nodes, edges, history, historyIndex, isUndoRedoRef>>
  /\ ops' = ops + 1
  /\ UNCHANGED <<counters, nextId, pure>>

\* redo loading the snapshot at the cursor instead of the one after it
redo_loadsCurrent ==
  /\ ops < MaxOps
  /\ IF historyIndex < Len(history) - 1
       THEN IF historyIndex + 1 >= 1
              THEN /\ Commit(history[historyIndex + 1].nodes,
                             history[historyIndex + 1].edges,
                             historyIndex + 1, TRUE)
                   /\ last' = Call("redo", "none", 0, 0, "none", "undefined")
              ELSE /\ isUndoRedoRef' = TRUE
                   /\ last' = Call("redo", "none", 0, 0, "none", "TypeError")
                   /\ UNCHANGED <<nodes, edges, history, historyIndex>>
       ELSE /\ last' = Call("redo", "none", 0, 0, "none", "undefined")
            /\ UNCHANGED <<nodes, edges, history, historyIndex, isUndoRedoRef>>
  /\ ops' = ops + 1
  /\ UNCHANGED <<counters, nextId, pure>>

\* lines 191-199.  history[historyIndex + 1] is slot historyIndex + 2.
redo ==
  /\ ops < MaxOps
  /\ IF historyIndex < Len(history) - 1
       THEN IF historyIndex + 2 >= 1
              THEN /\ Commit(history[historyIndex + 2].nodes,
                             history[historyIndex + 2].edges,
                             historyIndex + 1, TRUE)
                   /\ last' = Call("redo", "none", 0, 0, "none", "undefined")
              ELSE /\ isUndoRedoRef' = TRUE
                   /\ last' = Call("redo", "none", 0, 0, "none", "TypeError")
                   /\ UNCHANGED <<nodes, edges, history, historyIndex>>
       ELSE /\ last' = Call("redo", "none", 0, 0, "none", "undefined")
            /\ UNCHANGED <<nodes, edges, history, historyIndex, isUndoRedoRef>>
  /\ ops' = ops + 1
  /\ UNCHANGED <<counters, nextId, pure>>

\* lines 202-203
canUndo == historyIndex > 0

canRedo == historyIndex < Len(history) - 1

\* lines 24-33: the store after construction with nothing in localStorage
Init ==
  /\ nodes = <<>>
  /\ edges = <<>>
  /\ counters = [upsell |-> 0, downsell |-> 0]
  /\ history = <<>>
  /\ historyIndex = -1
  /\ isUndoRedoRef = FALSE
  /\ nextId = 0
  /\ ops = 0
  /\ last = NoCall
  /\ pure = NoPureCall

\* an id no node carries: nanoid() never hands it out
MissingId == MaxIds + 1

\* ids a handler can be called with: those of the live nodes, and an absent one
Ids == {nodes[i].id : i \in 1..Len(nodes)} \cup {MissingId}

\* edge ids deleteEdge can be called with: those of the live edges, and an
\* absent one
EdgeIds == {edges[i].id : i \in 1..Len(edges)} \cup {<<MissingId, MissingId>>}

Next ==
  \/ \E nodeType \in FunnelNodeType : addNode(nodeType)
  \/ \E source \in Ids, target \in Ids : onConnect(source, target)
  \/ \E nodeId \in Ids : deleteNode(nodeId)
  \/ \E edgeId \in EdgeIds : deleteEdge(edgeId[1], edgeId[2])
  \/ clearCanvas
  \/ undo
  \/ redo

Spec == Init /\ [][Next]_vars

\* ------------------------------------------------------------------------
\* The pure functions on arbitrary inputs
\* ------------------------------------------------------------------------
GraphIds == 1..MaxGraphId

\* a node as addNode builds it, with the id as index of an upsell or downsell
GraphNode(id, nodeType) ==
  IF nodeType \in {"upsell", "downsell"}
    THEN MkNode(id, nodeType, [base |-> DEFAULT_LABELS(nodeType), n |-> id], id)
    ELSE MkNode(id, nodeType, [base |-> DEFAULT_LABELS(nodeType), n |-> 0], 0)

\* node lists of up to MaxGraphNodes nodes of any types, ids 1, 2, ... in order
NodeLists ==
  UNION {{[i \in 1..k |-> GraphNode(i, t[i])] : t \in [1..k -> FunnelNodeType]} :
         k \in 0..MaxGraphNodes}

\* edge lists of up to MaxGraphEdges edges between any two ids, live or not:
\* self-loops, duplicates, dangling ends and thankYou sources included
EdgeLists ==
  UNION {[1..k -> {MkEdge(s, t) : s \in GraphIds, t \in GraphIds}] :
         k \in 0..MaxGraphEdges}

StoreAtRest ==
  /\ counters = [upsell |-> 0, downsell |-> 0]
  /\ history = <<>>
  /\ historyIndex = -1
  /\ isUndoRedoRef = FALSE
  /\ nextId = 0
  /\ ops = 0
  /\ last = NoCall
  /\ pure = NoPureCall

InitLegal ==
  /\ nodes = <<>>
  /\ edges \in EdgeLists
  /\ StoreAtRest

\* the node arguments of isValidConnection: any node, or undefined
NodeArgs ==
  {GraphNode(id, t) : id \in GraphIds, t \in FunnelNodeType} \cup {Undefined}

callIsValidConnection(sourceNode, targetNode) ==
  /\ pure.fn = "none"
  /\ pure' = PureCall("isValidConnection", sourceNode, targetNode,
                      isValidConnection(sourceNode, targetNode, edges), <<>>)
  /\ UNCHANGED <<nodes, edges, counters, history, historyIndex, isUndoRedoRef,
                 nextId, ops, last>>

NextLegal ==
  \E sourceNode \in NodeArgs, targetNode \in NodeArgs :
    callIsValidConnection(sourceNode, targetNode)

SpecLegal == InitLegal /\ [][NextLegal]_vars

InitValidate ==
  /\ nodes \in NodeLists
  /\ edges \in EdgeLists
  /\ StoreAtRest

callValidateFunnel ==
  /\ pure.fn = "none"
  /\ pure' = PureCall("validateFunnel", Undefined, Undefined, "none",
                      validateFunnel(nodes, edges))
  /\ UNCHANGED <<nodes, edges, counters, history, historyIndex, isUndoRedoRef,
                 nextId, ops, last>>

NextValidate == callValidateFunnel

SpecValidate == InitValidate /\ [][NextValidate]_vars

\* ------------------------------------------------------------------------
\* The store mounted on a graph saved by an earlier session (SpecCascade)
\* ------------------------------------------------------------------------
Max(a, b) == IF a > b THEN a ELSE b

\* lines 43-50: the counter of nodeType after the forEach over the saved
\* nodes, started from c
RECURSIVE restoreCounter(_, _, _)
restoreCounter(ns, nodeType, c) ==
  IF ns = <<>> THEN c
  ELSE restoreCounter(Tail(ns), nodeType,
                      IF Head(ns).nodeType = nodeType /\ Head(ns).index # 0
                        THEN Max(c, Head(ns).index)
                        ELSE c)

\* node types of the saved graphs
SavedTypes == {"upsell", "thankYou"}

\* node lists an earlier session can have saved: ids 1, 2, ... in order
SavedNodeLists ==
  UNION {{[i \in 1..k |-> GraphNode(i, t[i])] : t \in [1..k -> SavedTypes]} :
         k \in 1..MaxSavedNodes}

\* the edges onConnect accepts between the nodes ns
LegalEdges(ns) ==
  {MkEdge(ns[i].id, ns[j].id) :
     <<i, j>> \in {p \in (1..Len(ns)) \X (1..Len(ns)) :
                     p[1] # p[2] /\ ns[p[1]].nodeType # "thankYou"}}

\* a set of edges as a list, by source and then target
RECURSIVE EdgeList(_)
EdgeList(S) ==
  IF S = {} THEN <<>>
  ELSE LET e == CHOOSE e \in S :
                  \A f \in S : \/ e.source < f.source
                               \/ (e.source = f.source /\ e.target <= f.target)
       IN  <<e>> \o EdgeList(S \ {e})

SavedEdgeLists(ns) ==
  {EdgeList(S) : S \in {S \in SUBSET LegalEdges(ns) : Cardinality(S) <= MaxSavedEdges}}

\* lines 36-57 and the renders that follow: the store after mounting with
\* saved = { nodes, edges } in localStorage
InitSaved ==
  /\ nodes \in SavedNodeLists
  /\ edges \in SavedEdgeLists(nodes)
  /\ counters = [upsell |-> restoreCounter(nodes, "upsell", 0),
                 downsell |-> restoreCounter(nodes, "downsell", 0)]
  /\ LET r == SettleEffects(nodes, edges, <<[nodes |-> nodes, edges |-> edges]>>,
                            0, FALSE)
     IN  /\ history = r.history
         /\ historyIndex = r.historyIndex
         /\ isUndoRedoRef = r.isUndoRedoRef
  /\ nextId = Len(nodes)
  /\ ops = 0
  /\ last = NoCall
  /\ pure = NoPureCall

NextCascade ==
  \E nodeId \in Ids : ops < MaxSavedOps /\ deleteNode(nodeId)

SpecCascade == InitSaved /\ [][NextCascade]_vars

\* ------------------------------------------------------------------------
\* Undo and redo on a mounted store (SpecHistory)
\* ------------------------------------------------------------------------
\* The store mounted on a saved graph holds HistoryLimit copies of it with
\* historyIndex = HistoryIndexCap; every call of undo from there lowers
\* historyIndex by one and loads the same graph, so after k calls of undo the
\* store differs from the mounted one in historyIndex = HistoryIndexCap - k.
InitUndone ==
  /\ nodes \in {ns \in SavedNodeLists : Len(ns) <= MaxUndoNodes}
  /\ edges \in SavedEdgeLists(nodes)
  /\ counters = [upsell |-> restoreCounter(nodes, "upsell", 0),
                 downsell |-> restoreCounter(nodes, "downsell", 0)]
  /\ LET r == SettleEffects(nodes, edges, <<[nodes |-> nodes, edges |-> edges]>>,
                            0, FALSE)
     IN  /\ history = r.history
         /\ historyIndex \in 0..r.historyIndex
         /\ isUndoRedoRef = r.isUndoRedoRef
  /\ nextId = Len(nodes)
  /\ ops = 0
  /\ last = NoCall
  /\ pure = NoPureCall

InitHistory == Init \/ InitUndone

NextHistory ==
  \/ ops < MaxUndoOps /\ undo
  \/ ops < MaxUndoOps /\ redo
  \/ \E nodeType \in SavedTypes : ops < MaxUndoOps /\ addNode(nodeType)

SpecHistory == InitHistory /\ [][NextHistory]_vars

\* ------------------------------------------------------------------------
\* Loading an imported graph (SpecLoad)
\* ------------------------------------------------------------------------
\* the largest id carried by a node of ns, 0 for no node
MaxNodeId(ns) ==
  LET S == {ns[i].id : i \in 1..Len(ns)} \cup {0}
  IN  CHOOSE m \in S : \A x \in S : x <= m

\* lines 158-172.  nanoid() of line 101 never returns an id the store has
\* seen, so the ids of the loaded nodes are not handed out again.
loadState(state) ==
  /\ ops < MaxOps
  /\ Commit(state.nodes, state.edges, historyIndex, isUndoRedoRef)
  /\ counters' = [upsell |-> restoreCounter(state.nodes, "upsell", 0),
                  downsell |-> restoreCounter(state.nodes, "downsell", 0)]
  /\ nextId' = Max(nextId, MaxNodeId(state.nodes))
  /\ ops' = ops + 1
  /\ last' = Call("loadState", "none", 0, 0, "none", "undefined")
  /\ UNCHANGED pure

\* The file of importFunnelFromJson is any JSON with a nodes and an edges
\* array (storage.ts lines 68-77): data.index may be missing (0 here) and
\* data.label is any string, 'Upsell n' or 'Downsell n' here.
LoadTypes == {"upsell", "downsell"}

LoadNode(id, nodeType, index, n) ==
  MkNode(id, nodeType, [base |-> DEFAULT_LABELS(nodeType), n |-> n], index)

\* the lists of k such nodes, ids 1, 2, ... in order
LoadNodeLists(k) ==
  {[i \in 1..k |-> LoadNode(i, f[i][1], f[i][2], f[i][3])] :
     f \in [1..k -> LoadTypes \X (0..MaxLoadIndex) \X (1..MaxLoadIndex)]}

LoadEdgeLists(ns) ==
  IF Len(ns) >= 2 THEN {<<>>, <<MkEdge(ns[1].id, ns[2].id)>>} ELSE {<<>>}

\* the states of up to MaxLoadNodes nodes loadState is called with
LoadStates(k) ==
  UNION {{[nodes |-> ns, edges |-> es] : es \in LoadEdgeLists(ns)} :
         ns \in LoadNodeLists(k)}

\* MaxLoadAdds nodes are added, a graph is loaded, one more node is added
NextLoad ==
  \/ \E nodeType \in LoadTypes : ops < MaxLoadAdds /\ addNode(nodeType)
  \/ ops = MaxLoadAdds /\ \E k \in 0..MaxLoadNodes :
                             \E state \in LoadStates(k) : loadState(state)
  \/ \E nodeType \in LoadTypes : ops = MaxLoadAdds + 1 /\ addNode(nodeType)

SpecLoad == Init /\ [][NextLoad]_vars

\* ------------------------------------------------------------------------
\* MaxMutations mutations, then MaxMutations calls of undo (SpecRoundTrip)
\* ------------------------------------------------------------------------
NextRoundTrip ==
  \/ \E nodeType \in FunnelNodeType : ops < MaxMutations /\ addNode(nodeType)
  \/ \E nodeId \in Ids \ {MissingId} : ops < MaxMutations /\ deleteNode(nodeId)
  \/ ops < MaxMutations /\ nodes # <<>> /\ clearCanvas
  \/ ops >= MaxMutations /\ ops < 2 * MaxMutations /\ undo

SpecRoundTrip == Init /\ [][NextRoundTrip]_vars

\* ------------------------------------------------------------------------
\* Properties of the store (Spec)
\* ------------------------------------------------------------------------
SelfLoopReason == "Cannot connect a node to itself"
DuplicateReason == "Connection already exists"
ThankYouReason == "Thank You pages cannot have outgoing connections"

Rejected(call) == call.op = "onConnect" /\ call.error # "null"

\* C1: in every state reached by addNode, onConnect, deleteNode, deleteEdge,
\* clearCanvas, undo and redo from the empty store, no edge has a thankYou
\* node as its source.
C1_NoThankYouSource ==
  \A i \in 1..Len(edges) : Find(nodes, edges[i].source).nodeType # "thankYou"

\* a connection out of a live thankYou node was attempted on a graph with edges
C1_Witness ==
  /\ last.op = "onConnect"
  /\ last.error = ThankYouReason
  /\ Find(nodes, last.source).nodeType = "thankYou"
  /\ Len(edges) > 0

\* C2: in every such state no edge has its source equal to its target.
C2_NoSelfLoop ==
  \A i \in 1..Len(edges) : edges[i].source # edges[i].target

\* a node was connected to itself on a graph with edges, and rejected
C2_Witness ==
  /\ last.op = "onConnect"
  /\ last.error = SelfLoopReason
  /\ last.source = last.target
  /\ Len(edges) > 0

\* C3: in every such state no two distinct edges share (source, target).
C3_NoDuplicateEdges ==
  \A i, j \in 1..Len(edges) :
    (edges[i].source = edges[j].source /\ edges[i].target = edges[j].target)
      => i = j

\* an existing connection was attempted again on a graph with two edges
C3_Witness ==
  /\ last.op = "onConnect"
  /\ last.error = DuplicateReason
  /\ Len(edges) = 2

\* C5: a connect attempt the legality checker rejects leaves nodes, edges,
\* label counters, history and cursor as they were; and a connect that repeats
\* the successful connect just before it is rejected with 'Connection already
\* exists' and leaves the number of edges the same.
C5_RejectedConnectChangesNothing ==
  [][/\ (Rejected(last') /\ ops' = ops + 1)
          => UNCHANGED <<nodes, edges, counters, history, historyIndex>>
     /\ (/\ last.op = "onConnect" /\ last.error = "null"
         /\ last'.op = "onConnect" /\ ops' = ops + 1
         /\ last'.source = last.source /\ last'.target = last.target)
          => (last'.error = DuplicateReason /\ Len(edges') = Len(edges))]_vars

\* connect(S1, O1) succeeded, was repeated and rejected, and one edge is held
C5_Witness ==
  /\ last.op = "onConnect"
  /\ last.error = DuplicateReason
  /\ Len(history) > 0
  /\ Len(nodes) = 2
  /\ nodes[1].nodeType = "salesPage"
  /\ nodes[2].nodeType = "orderPage"
  /\ edges = <<MkEdge(nodes[1].id, nodes[2].id)>>

\* C6: a connect attempt the legality checker rejects returns the reason to
\* the caller of the store's connect operation.
C6_RejectedConnectReturnsReason ==
  Rejected(last) => last.ret = last.error

\* ------------------------------------------------------------------------
\* Properties of isValidConnection (SpecLegal)
\* ------------------------------------------------------------------------
\* C4: isValidConnection returns the reason of the first failing check in the
\* order undefined node, self-connection, existing connection, thankYou
\* source, and null exactly when no check fails.
C4_FirstFailingCheckWins ==
  pure.fn = "isValidConnection" =>
    LET s == pure.sourceNode
        t == pure.targetNode
        missing == s = Undefined \/ t = Undefined
        self == s.id = t.id
        exists == \E i \in 1..Len(edges) :
                    edges[i].source = s.id /\ edges[i].target = t.id
        terminal == s.nodeType = "thankYou"
    IN  /\ missing => pure.reason = "Invalid nodes"
        /\ (~missing /\ self) => pure.reason = SelfLoopReason
        /\ (~missing /\ ~self /\ exists) => pure.reason = DuplicateReason
        /\ (~missing /\ ~self /\ ~exists /\ terminal) => pure.reason = ThankYouReason
        /\ pure.reason = "null" <=> ~(missing \/ self \/ exists \/ terminal)

\* a self-loop on a thankYou node got the self-loop reason
C4_Witness ==
  /\ pure.fn = "isValidConnection"
  /\ pure.sourceNode # Undefined
  /\ pure.sourceNode.nodeType = "thankYou"
  /\ pure.targetNode = pure.sourceNode
  /\ pure.reason = SelfLoopReason

\* ------------------------------------------------------------------------
\* Properties of validateFunnel (SpecValidate)
\* ------------------------------------------------------------------------
Validated == pure.fn = "validateFunnel"

NoOutgoingText == "should connect to an Order Page"
MultipleText == "has multiple outgoing connections (typically should have one)"
OrphanText == "is not connected to any other node"

OutDegree(id) == Cardinality({i \in 1..Len(edges) : edges[i].source = id})
InDegree(id) == Cardinality({i \in 1..Len(edges) : edges[i].target = id})

\* positions of the issues reported against node id
IssuesOf(id) == {k \in 1..Len(pure.issues) : pure.issues[k].nodeId = id}
ErrorsOf(id) == {k \in IssuesOf(id) : pure.issues[k].type = "error"}
WithText(id, text) == {k \in IssuesOf(id) : pure.issues[k].message.text = text}

\* C7: an issue of severity error is emitted for node n exactly when n is a
\* thankYou node with an outgoing edge; then exactly one, with nodeId = n.id
\* and the id a fixed prefix followed by n.id.  Nothing else is an error.
C7_ErrorIffThankYouWithOutgoing ==
  Validated =>
    /\ \A i \in 1..Len(nodes) :
         LET n == nodes[i]
         IN  /\ (n.nodeType = "thankYou" /\ OutDegree(n.id) > 0)
                  <=> ErrorsOf(n.id) # {}
             /\ Cardinality(ErrorsOf(n.id)) <= 1
    /\ \A k \in 1..Len(pure.issues) :
         pure.issues[k].type = "error" =>
           /\ \E i \in 1..Len(nodes) : nodes[i].id = pure.issues[k].nodeId
           /\ pure.issues[k].id =
                [prefix |-> "thank-you-outgoing-", node |-> pure.issues[k].nodeId]

\* a graph with a thankYou source and one with an orderPage source, validated
C7_Witness ==
  /\ Validated
  /\ \E i \in 1..Len(nodes) :
       nodes[i].nodeType = "thankYou" /\ ErrorsOf(nodes[i].id) # {}
  /\ \E i \in 1..Len(nodes) :
       nodes[i].nodeType = "orderPage" /\ OutDegree(nodes[i].id) > 0

\* C8: for a salesPage node, no outgoing edge gives exactly the 'should
\* connect' warning, more than one exactly the 'multiple outgoing' warning,
\* exactly one neither; a node of another type gets neither.
C8_SalesPageWarnings ==
  Validated =>
    \A i \in 1..Len(nodes) :
      LET n == nodes[i]
          none == Cardinality(WithText(n.id, NoOutgoingText))
          multiple == Cardinality(WithText(n.id, MultipleText))
          out == OutDegree(n.id)
      IN  /\ (n.nodeType = "salesPage" /\ out = 0) => (none = 1 /\ multiple = 0)
          /\ (n.nodeType = "salesPage" /\ out > 1) => (none = 0 /\ multiple = 1)
          /\ (n.nodeType = "salesPage" /\ out = 1) => (none = 0 /\ multiple = 0)
          /\ n.nodeType # "salesPage" => (none = 0 /\ multiple = 0)
          /\ \A k \in WithText(n.id, NoOutgoingText) \cup WithText(n.id, MultipleText) :
               pure.issues[k].type = "warning"

\* sales pages with zero, one and two outgoing edges were validated
C8_Witness ==
  /\ Validated
  /\ \E i \in 1..Len(nodes) :
       /\ nodes[i].nodeType = "salesPage"
       /\ OutDegree(nodes[i].id) = 2
       /\ WithText(nodes[i].id, MultipleText) # {}
  /\ \E i \in 1..Len(nodes) :
       /\ nodes[i].nodeType = "salesPage"
       /\ OutDegree(nodes[i].id) = 0
       /\ WithText(nodes[i].id, NoOutgoingText) # {}

\* C9: the orphan warning is emitted for node n exactly when n has no
\* outgoing edge, no incoming edge and the graph has more than one node,
\* whatever the type of n and whatever else was emitted for n.
C9_OrphanIffIsolated ==
  Validated =>
    \A i \in 1..Len(nodes) :
      LET n == nodes[i]
          isolated == OutDegree(n.id) = 0 /\ InDegree(n.id) = 0 /\ Len(nodes) > 1
      IN  /\ Cardinality(WithText(n.id, OrphanText)) = (IF isolated THEN 1 ELSE 0)
          /\ \A k \in WithText(n.id, OrphanText) :
               /\ pure.issues[k].type = "warning"
               /\ pure.issues[k].id = [prefix |-> "orphan-", node |-> n.id]

\* an isolated sales page got its own warning and the orphan warning, next to
\* a thankYou node that has only an incoming edge and is no orphan
C9_Witness ==
  /\ Validated
  /\ \E i \in 1..Len(nodes) :
       /\ nodes[i].nodeType = "salesPage"
       /\ WithText(nodes[i].id, NoOutgoingText) # {}
       /\ WithText(nodes[i].id, OrphanText) # {}
  /\ \E i \in 1..Len(nodes) :
       /\ nodes[i].nodeType = "thankYou"
       /\ OutDegree(nodes[i].id) = 0
       /\ InDegree(nodes[i].id) > 0
       /\ WithText(nodes[i].id, OrphanText) = {}

\* the graph of nodes [salesPage S1, orderPage O1] and no edges
OrphanScenario ==
  /\ Validated
  /\ nodes = <<GraphNode(1, "salesPage"), GraphNode(2, "orderPage")>>
  /\ edges = <<>>

\* C10 as stated: on [salesPage S1, orderPage O1] without edges validate
\* returns exactly two issues, the orphan warnings of S1 and of O1.
C10_TwoOrphanWarnings ==
  OrphanScenario =>
    /\ Len(pure.issues) = 2
    /\ \A k \in 1..2 :
         /\ pure.issues[k].type = "warning"
         /\ pure.issues[k].message.text = OrphanText
         /\ pure.issues[k].nodeId = nodes[k].id

\* C10 amended: on that graph validate returns exactly three issues, all
\* warnings: 'should connect to an Order Page' for S1, then the orphan
\* warning for S1, then the orphan warning for O1.
C10_ThreeWarnings ==
  OrphanScenario =>
    pure.issues =
      <<Issue("sales-no-outgoing-", "warning", NoOutgoingText, nodes[1]),
        Issue("orphan-", "warning", OrphanText, nodes[1]),
        Issue("orphan-", "warning", OrphanText, nodes[2])>>

C10_Witness == OrphanScenario /\ Len(pure.issues) = 3

MultipleStartText ==
  "Multiple starting points detected. Consider having only one Sales Page as entry."

\* C11: on a graph with more than one salesPage node, one of them without
\* incoming edge, the 'Multiple starting points detected' warning is emitted
\* exactly once, without nodeId, after all issues of the nodes; on any other
\* graph it is not emitted.
C11_MultipleStartOnce ==
  Validated =>
    LET sales == {i \in 1..Len(nodes) : nodes[i].nodeType = "salesPage"}
        several == /\ Cardinality(sales) > 1
                   /\ \E i \in sales : InDegree(nodes[i].id) = 0
        hits == {k \in 1..Len(pure.issues) :
                   pure.issues[k].message.text = MultipleStartText}
    IN  IF several
          THEN /\ hits = {Len(pure.issues)}
               /\ pure.issues[Len(pure.issues)].type = "warning"
               /\ pure.issues[Len(pure.issues)].nodeId = Undefined.id
          ELSE hits = {}

\* ------------------------------------------------------------------------
\* Properties of the store and validateFunnel together (Spec)
\* ------------------------------------------------------------------------
\* C12: the graph of every state reached by addNode, onConnect, deleteNode,
\* deleteEdge, clearCanvas, undo and redo from the empty store validates
\* without an issue of severity error.
C12_NoErrorWithoutImport ==
  LET issues == validateFunnel(nodes, edges)
  IN  \A k \in 1..Len(issues) : issues[k].type # "error"

\* three nodes, a thankYou node with an incoming edge among them, and the
\* validation of the graph has something to report
C12_Witness ==
  /\ Len(nodes) = 3
  /\ \E i \in 1..Len(nodes) :
       nodes[i].nodeType = "thankYou" /\ InDegree(nodes[i].id) > 0
  /\ validateFunnel(nodes, edges) # <<>>

\* ------------------------------------------------------------------------
\* Properties of the labels (Spec)
\* ------------------------------------------------------------------------
ZeroCounters == [upsell |-> 0, downsell |-> 0]

\* the event handled by this step is a call of op
Handles(op) == ops' = ops + 1 /\ last'.op = op

\* C14: the store starts with both counters at zero and clearCanvas puts them
\* back to zero; an upsell added when k - 1 were added since then is labelled
\* 'Upsell k' with index k (a downsell 'Downsell k'), and no other event,
\* deleteNode included, changes a counter: every index handed out is greater
\* than all those handed out since the store was empty or cleared.
C14_LabelsCountUp ==
  /\ counters = ZeroCounters
  /\ [][/\ Handles("clearCanvas") => counters' = ZeroCounters
        /\ (Handles("addNode") /\ last'.nodeType = "upsell") =>
             /\ nodes'[Len(nodes')].label = [base |-> "Upsell", n |-> counters.upsell + 1]
             /\ nodes'[Len(nodes')].index = counters.upsell + 1
             /\ counters' = [counters EXCEPT !.upsell = @ + 1]
        /\ (Handles("addNode") /\ last'.nodeType = "downsell") =>
             /\ nodes'[Len(nodes')].label =
                  [base |-> "Downsell", n |-> counters.downsell + 1]
             /\ nodes'[Len(nodes')].index = counters.downsell + 1
             /\ counters' = [counters EXCEPT !.downsell = @ + 1]
        /\ (Handles("addNode") /\ last'.nodeType \notin {"upsell", "downsell"}) =>
             counters' = counters
        /\ (\E op \in {"onConnect", "deleteNode", "deleteEdge", "undo", "redo"} :
              Handles(op)) => counters' = counters]_vars

\* Upsell 1, 2 and 3 were added, Upsell 2 deleted, and the upsell added next
\* is Upsell 4
C14_Witness ==
  /\ last.op = "addNode"
  /\ ops = 5
  /\ Len(nodes) = 3
  /\ \A i \in 1..3 : nodes[i].nodeType = "upsell"
  /\ nodes[1].label.n = 1
  /\ nodes[2].label.n = 3
  /\ nodes[3].label.n = 4
  /\ nodes[3].label.base = "Upsell"

\* ------------------------------------------------------------------------
\* Properties of deleteNode (SpecCascade)
\* ------------------------------------------------------------------------
Incident(e, id) == e.source = id \/ e.target = id

\* position of the node with this id in the list ns, 0 when there is none
PositionOf(ns, id) ==
  IF \E i \in 1..Len(ns) : ns[i].id = id
    THEN CHOOSE i \in 1..Len(ns) : ns[i].id = id
    ELSE 0

\* t is s with some elements left out: an increasing map of positions exists
RECURSIVE IsSubsequence(_, _)
IsSubsequence(t, s) ==
  IF t = <<>> THEN TRUE
  ELSE IF s = <<>> THEN FALSE
  ELSE IF Head(t) = Head(s) THEN IsSubsequence(Tail(t), Tail(s))
  ELSE IsSubsequence(t, Tail(s))

\* C15: deleteNode(id) on a live node removes that node and exactly the edges
\* with id as source or target; the other nodes and the other edges stay,
\* unchanged and in the same relative order.
C15_CascadeDelete ==
  [][(Handles("deleteNode") /\ PositionOf(nodes, last'.source) # 0) =>
       LET id == last'.source
           p == PositionOf(nodes, id)
           gone == {i \in 1..Len(edges) : Incident(edges[i], id)}
       IN  /\ nodes' = SubSeq(nodes, 1, p - 1) \o SubSeq(nodes, p + 1, Len(nodes))
           /\ Len(edges') = Len(edges) - Cardinality(gone)
           /\ \A i \in 1..Len(edges') : ~Incident(edges'[i], id)
           /\ IsSubsequence(edges', edges)]_vars

\* a node with two incoming edges and one outgoing edge was deleted: three
\* edges went and the one between the other two nodes stayed
C15_Witness ==
  /\ last.op = "deleteNode"
  /\ Len(nodes) = 2
  /\ Len(edges) = 1
  /\ Len(history[Len(history) - 1].edges) = 4
  /\ LET before == history[Len(history) - 1].edges
         id == last.source
     IN  /\ Cardinality({i \in 1..4 : before[i].target = id}) = 2
         /\ Cardinality({i \in 1..4 : before[i].source = id}) = 1

\* ------------------------------------------------------------------------
\* Properties of the history (Spec)
\* ------------------------------------------------------------------------
\* C16: deleteNode(id) with an id no live node carries leaves nodes, edges,
\* label counters, history and cursor as they were.
C16_DeleteMissingChangesNothing ==
  [][(Handles("deleteNode") /\ PositionOf(nodes, last'.source) = 0) =>
       UNCHANGED <<nodes, edges, counters, history, historyIndex>>]_vars

Snapshot(n, e) == [nodes |-> n, edges |-> e]

\* the event handled by this step is a mutation that took effect
Mutation ==
  \/ \E op \in {"addNode", "deleteNode", "deleteEdge", "clearCanvas"} : Handles(op)
  \/ Handles("onConnect") /\ last'.error = "null"

\* C17: every committed mutation appends exactly one snapshot, equal to the
\* graph after the mutation, and leaves the cursor on it; with the cursor at
\* the end and the history below capacity the history grows by exactly one.
C17_OneSnapshotPerMutation ==
  [][Mutation =>
       /\ Len(history') > 0
       /\ history'[Len(history')] = Snapshot(nodes', edges')
       /\ historyIndex' = Len(history') - 1
       /\ (historyIndex = Len(history) - 1 /\ Len(history) < HistoryLimit)
            => history' = Append(history, Snapshot(nodes', edges'))]_vars

\* ------------------------------------------------------------------------
\* Properties of undo and redo (SpecHistory)
\* ------------------------------------------------------------------------
\* the live graph is the snapshot at the cursor
AtCursor ==
  /\ historyIndex + 1 \in DOMAIN history
  /\ nodes = history[historyIndex + 1].nodes
  /\ edges = history[historyIndex + 1].edges

\* C18: undo changes neither graph nor history nor cursor when the cursor is
\* at position 0 or the history is empty; otherwise it lowers the cursor by
\* one and loads the snapshot now at the cursor.  canUndo is true exactly in
\* the second case.
C18_Undo ==
  [][Handles("undo") =>
       /\ canUndo <=> ~(historyIndex = 0 \/ history = <<>>)
       /\ IF historyIndex = 0 \/ history = <<>>
            THEN UNCHANGED <<nodes, edges, history, historyIndex>>
            ELSE /\ historyIndex' = historyIndex - 1
                 /\ AtCursor']_vars

\* undo has taken the store from the graph with a node added back to the
\* graph before it
C18_Witness ==
  /\ last.op = "undo"
  /\ historyIndex = HistoryIndexCap - 1
  /\ AtCursor
  /\ Len(history[HistoryLimit].nodes) = Len(nodes) + 1

\* C19: redo changes neither graph nor history nor cursor when the cursor is
\* at the last index of the history; otherwise it raises the cursor by one
\* and loads the snapshot now at the cursor.  canRedo is true exactly in the
\* second case.
C19_Redo ==
  [][Handles("redo") =>
       /\ canRedo <=> ~(historyIndex = Len(history) - 1)
       /\ IF historyIndex = Len(history) - 1
            THEN UNCHANGED <<nodes, edges, history, historyIndex>>
            ELSE /\ historyIndex' = historyIndex + 1
                 /\ AtCursor']_vars

\* redo has taken the store from the graph before a node was added to the
\* graph with it
C19_Witness ==
  /\ last.op = "redo"
  /\ historyIndex = HistoryIndexCap
  /\ AtCursor
  /\ Len(history[HistoryIndexCap].nodes) = Len(nodes) - 1

\* ------------------------------------------------------------------------
\* Properties of the round trip (SpecRoundTrip)
\* ------------------------------------------------------------------------
\* C20: from the empty store, MaxMutations mutations followed by
\* MaxMutations calls of undo leave the empty graph.
C20_UndoAllReturnsToEmpty ==
  ops = 2 * MaxMutations => nodes = <<>> /\ edges = <<>>

\* ------------------------------------------------------------------------
\* Properties of the history after an undo (Spec)
\* ------------------------------------------------------------------------
\* C21: a committed mutation made while the cursor is not at the end of the
\* history discards the snapshots after the cursor and appends the new one:
\* what the history held up to the cursor is followed by the new graph only,
\* and right afterwards canRedo is false and redo changes nothing.
C21_MutationAfterUndoDropsRedo ==
  [][(Mutation /\ canRedo) =>
       /\ ~canRedo'
       /\ Len(history') > 0
       /\ history'[Len(history')] = Snapshot(nodes', edges')
       /\ \A i \in DOMAIN history' :
            \/ history'[i] = Snapshot(nodes', edges')
            \/ \E j \in 1..(historyIndex + 1) : history'[i] = history[j]]_vars

\* ------------------------------------------------------------------------
\* Properties of clearCanvas (Spec)
\* ------------------------------------------------------------------------
\* C22: clearCanvas leaves no node and no edge and both label counters at
\* zero; the upsell added right after it is labelled 'Upsell 1' and the
\* downsell added right after it 'Downsell 1'.
C22_ClearResets ==
  [][/\ Handles("clearCanvas") =>
          nodes' = <<>> /\ edges' = <<>> /\ counters' = ZeroCounters
     /\ (last.op = "clearCanvas" /\ Handles("addNode")) =>
          LET added == nodes'[Len(nodes')]
          IN  /\ added.nodeType = "upsell" =>
                   added.label = [base |-> "Upsell", n |-> 1] /\ added.index = 1
              /\ added.nodeType = "downsell" =>
                   added.label = [base |-> "Downsell", n |-> 1] /\ added.index = 1]_vars

\* an upsell was added, the canvas cleared, and the upsell added next is
\* 'Upsell 1' again
C22_Witness ==
  /\ last.op = "addNode"
  /\ Len(nodes) = 1
  /\ nodes[1].nodeType = "upsell"
  /\ nodes[1].id = 2
  /\ nodes[1].label = [base |-> "Upsell", n |-> 1]
  /\ history # <<>>
  /\ history[1].nodes = <<MkNode(1, "upsell", [base |-> "Upsell", n |-> 1], 1)>>
  /\ counters.upsell = 1

\* ------------------------------------------------------------------------
\* Properties of the suppress flag (Spec)
\* ------------------------------------------------------------------------
\* undo and redo leave the history as it was
UndoRedoKeepHistory ==
  (Handles("undo") \/ Handles("redo")) => history' = history

\* the mutation handled right after an undo or redo is recorded: the history
\* ends with the graph it produced and the cursor is on that entry
MutationAfterUndoRedoRecorded ==
  (last.op \in {"undo", "redo"} /\ Mutation) =>
     /\ Len(history') > 0
     /\ history'[Len(history')] = Snapshot(nodes', edges')
     /\ historyIndex' = Len(history') - 1

\* C23: undo and redo never add, remove or change a history entry; the flag
\* they set is cleared by the suppressed write, so it is false whenever the
\* store is idle, and the next committed mutation is recorded.
C23_UndoRedoNotRecorded ==
  [][/\ isUndoRedoRef' = FALSE
     /\ UndoRedoKeepHistory
     /\ MutationAfterUndoRedoRecorded]_vars

\* ------------------------------------------------------------------------
\* Properties of the capacity of the history (Spec)
\* ------------------------------------------------------------------------
\* C24: the history never holds more than 50 snapshots; a snapshot recorded
\* when 50 are held and the cursor is at the end evicts the oldest, keeps the
\* other 49 in order, comes last, and the cursor is on it (index 49).
C24_BoundedHistory ==
  [][/\ Len(history') <= HistoryLimit
     /\ (/\ Mutation
         /\ Len(history) = HistoryLimit
         /\ historyIndex = Len(history) - 1
         /\ (nodes' # <<>> \/ edges' # <<>>)) =>
          /\ history' = Append(Tail(history), Snapshot(nodes', edges'))
          /\ historyIndex' = HistoryIndexCap]_vars

\* two snapshots were recorded into a full history, so it ends with three
\* different graphs, the last of them the live one
C24_Witness ==
  /\ Len(history) = HistoryLimit
  /\ historyIndex = HistoryIndexCap
  /\ history[HistoryLimit] = Snapshot(nodes, edges)
  /\ history[HistoryLimit - 1] # history[HistoryLimit]
  /\ history[HistoryLimit - 2] # history[HistoryLimit - 1]
  /\ history[1] = history[HistoryLimit - 2]

\* ------------------------------------------------------------------------
\* Properties of loadState (SpecLoad)
\* ------------------------------------------------------------------------
\* the largest index carried by a node of ns of this type, 0 for none
MaxIndex(ns, nodeType) ==
  LET S == {ns[i].index : i \in {j \in 1..Len(ns) : ns[j].nodeType = nodeType}}
             \cup {0}
  IN  CHOOSE m \in S : \A x \in S : x <= m

CountersAreMaxIndex ==
  Handles("loadState") =>
     /\ counters'.upsell = MaxIndex(nodes', "upsell")
     /\ counters'.downsell = MaxIndex(nodes', "downsell")

NextIndexIsMaxPlusOne ==
  (last.op = "loadState" /\ Handles("addNode")) =>
     LET added == nodes'[Len(nodes')]
     IN  added.index = MaxIndex(nodes, added.nodeType) + 1

NextLabelIsNew ==
  (last.op = "loadState" /\ Handles("addNode")) =>
     LET added == nodes'[Len(nodes')]
     IN  \A i \in 1..Len(nodes) :
           nodes[i].nodeType = added.nodeType => nodes[i].label # added.label

\* C25: after loadState(graph) each counter is the largest index among the
\* loaded nodes of its type (0 for none), whatever it was before; the node of
\* that type added next gets that index plus one, and a label that no loaded
\* node of the type carries.
C25_LoadRestoresCounters ==
  [][CountersAreMaxIndex /\ NextIndexIsMaxPlusOne /\ NextLabelIsNew]_vars

\* ------------------------------------------------------------------------
\* Properties of validateFunnel on dangling edges (SpecValidate)
\* ------------------------------------------------------------------------
IsNodeId(id) == \E i \in 1..Len(nodes) : nodes[i].id = id

\* the edges with exactly this end at node id and the other end at no node
DanglingAt(id) ==
  {k \in 1..Len(edges) :
     \/ edges[k].source = id /\ ~IsNodeId(edges[k].target)
     \/ edges[k].target = id /\ ~IsNodeId(edges[k].source)}

\* C26: on every graph validate has returned for, edges with an end at no
\* node included, every issue is reported against a node of the list, and a
\* node that is an end of a dangling edge is not reported as an orphan.
\* (validateFunnel is two loops over finite arrays: it returns on every
\* graph, and callValidateFunnel is taken from every initial state.)
C26_DanglingEdges ==
  Validated =>
    /\ \A k \in 1..Len(pure.issues) : IsNodeId(pure.issues[k].nodeId)
    /\ \A i \in 1..Len(nodes) :
         DanglingAt(nodes[i].id) # {} => WithText(nodes[i].id, OrphanText) = {}

\* of two nodes the first has nothing but an edge to an id that is no node
\* and is no orphan, the second has no edge and is one
C26_Witness ==
  /\ Validated
  /\ Len(nodes) = 2
  /\ Len(edges) = 1
  /\ edges[1].source = nodes[1].id
  /\ ~IsNodeId(edges[1].target)
  /\ WithText(nodes[1].id, OrphanText) = {}
  /\ WithText(nodes[2].id, OrphanText) # {}

\* ------------------------------------------------------------------------
\* Properties of the edges of the store (Spec)
\* ------------------------------------------------------------------------
\* every edge of es starts and ends at a node of ns
EndsAreNodes(ns, es) ==
  \A k \in 1..Len(es) :
    /\ \E i \in 1..Len(ns) : ns[i].id = es[k].source
    /\ \E i \in 1..Len(ns) : ns[i].id = es[k].target

\* C27: in every state reached from the empty store by addNode, onConnect,
\* deleteNode, deleteEdge, clearCanvas, undo and redo, every live edge starts
\* and ends at a live node, and so does every edge of every snapshot of the
\* history at the nodes of that snapshot.
C27_EdgeEndsAreLive ==
  /\ EndsAreNodes(nodes, edges)
  /\ \A h \in {history[j] : j \in 1..Len(history)} : EndsAreNodes(h.nodes, h.edges)

\* two nodes were connected, the target deleted with the edge, and undo has
\* brought both back
C27_Witness ==
  /\ last.op = "undo"
  /\ Len(nodes) = 2
  /\ Len(edges) = 1
  /\ history[HistoryLimit].edges = <<>>
  /\ Len(history[HistoryLimit].nodes) = 1
  /\ history[HistoryLimit].nodes[1].id = edges[1].source

\* ------------------------------------------------------------------------
\* Properties of the labels of live nodes (Spec)
\* ------------------------------------------------------------------------
\* C28: no two live upsell nodes carry the same label or index, and no two
\* live downsell nodes do.
C28_LiveLabelsDiffer ==
  \A i, j \in 1..Len(nodes) :
    (i # j /\ nodes[i].nodeType = nodes[j].nodeType
           /\ nodes[i].nodeType \in {"upsell", "downsell"}) =>
      nodes[i].label # nodes[j].label /\ nodes[i].index # nodes[j].index

\* ------------------------------------------------------------------------
\* Properties of the cursor (Spec, SpecHistory)
\* ------------------------------------------------------------------------
\* C29: when the history is not empty, the snapshot at the cursor is the live
\* graph, after every operation.
C29_CursorSnapshotIsLive ==
  history # <<>> => AtCursor

\* C30: the cursor is a position of the history, or -1 exactly when the
\* history is empty; no undo or redo has read a slot that does not exist.
C30_CursorInRange ==
  /\ historyIndex >= -1
  /\ historyIndex <= Len(history) - 1
  /\ historyIndex = -1 <=> history = <<>>
  /\ last.ret # "TypeError"

\* the first call was undo and the cursor is at 0 after it: undo has brought
\* it there from 1 or, called at 0, has left it there
C30_Witness ==
  /\ last.op = "undo"
  /\ ops = 1
  /\ historyIndex = 0
  /\ history # <<>>
  /\ AtCursor

====
